---- MODULE Spec2Model ----
(***************************************************************************)
(* The DNS record resource of the Porkbun provider                         *)
(* (internal/provider/resource_dns_record.go): the Create / Read / Update  *)
(* / Delete / ImportState handlers of porkbunDnsRecordResource and the two *)
(* retry executors, retry and retrySingleReturn.                           *)
(*                                                                         *)
(* Strings are sequences of one-character strings, so that strconv.Atoi,   *)
(* fmt.Sprint and strings.ReplaceAll are computed, not assumed.            *)
(*                                                                         *)
(* A types.String is the record [Null, Unknown, Value] of the plugin       *)
(* framework: the handlers assign the Value field only, and what           *)
(* resp.State.Set persists is null whenever Null is set, whatever Value    *)
(* holds.                                                                  *)
(***************************************************************************)
EXTENDS Integers, Sequences, FiniteSets, TLC

VARIABLES
    MaxRetries,  \* r.provider.MaxRetries, the operator's setting
    sleep,       \* the package variable sleep
    state,       \* the persisted state of the managed record, or NoState
    prior,       \* the persisted state when the operation in flight started
    pc,          \* position of the operation in flight
    op,          \* the handler in flight (or the last one, when pc = "idle")
    data,        \* the handler's local data / state struct
    recordId,    \* Update's recordId
    intId,       \* Update's and Delete's intId
    diags,       \* resp.Diagnostics: the error summaries added so far
    i,           \* the executor's loop counter
    delay,       \* the executor's parameter sleep (a copy of the package variable)
    result,      \* the executor's named result
    err,         \* the executor's named result err: the failure of the last attempt
    retErr,      \* the failure the executor returned
    calls,       \* the record API calls made by the operation, in order
    delays,      \* the waits made by the operation, in order (seconds)
    outs,        \* what each call returned, in order
    issued,      \* the identifiers the managed record got from CreateRecord or from an import
    cancelled    \* an operation is in flight and its ctx is cancelled

vars == <<MaxRetries, sleep, state, prior, pc, op, data, recordId, intId, diags,
          i, delay, result, err, retErr, calls, delays, outs, issued, cancelled>>

(***************************************************************************)
(* Bounds                                                                  *)
(***************************************************************************)
\* the largest MaxRetries the operator configures
MaxRetriesBound == 3
\* the longest remote name and domain of the name derivation's own specification
MaxNameLen == 5

(***************************************************************************)
(* Strings                                                                 *)
(***************************************************************************)
Digits == <<"0", "1", "2", "3", "4", "5", "6", "7", "8", "9">>

IsDigit(c) == \E k \in 1..10 : Digits[k] = c

DigitVal(c) == (CHOOSE k \in 1..10 : Digits[k] = c) - 1

RECURSIVE DigitsVal(_)
DigitsVal(s) ==
    IF s = <<>> THEN 0
    ELSE 10 * DigitsVal(SubSeq(s, 1, Len(s) - 1)) + DigitVal(s[Len(s)])

\* strconv.Atoi: an optional sign and one or more decimal digits; anything else
\* is a syntax error, returned with the value 0
Atoi(s) ==
    LET signed == Len(s) > 0 /\ s[1] \in {"+", "-"}
        body   == IF signed THEN Tail(s) ELSE s
        ok     == Len(body) > 0 /\ \A k \in 1..Len(body) : IsDigit(body[k])
    IN  IF ~ok THEN [val |-> 0, err |-> TRUE]
        ELSE [val |-> IF signed /\ s[1] = "-" THEN 0 - DigitsVal(body) ELSE DigitsVal(body),
              err |-> FALSE]

RECURSIVE SprintNat(_)
SprintNat(n) ==
    IF n < 10 THEN <<Digits[n + 1]>>
    ELSE SprintNat(n \div 10) \o <<Digits[(n % 10) + 1]>>

\* fmt.Sprint of an int
Sprint(n) == IF n < 0 THEN <<"-">> \o SprintNat(0 - n) ELSE SprintNat(n)

HasPrefix(s, p) == Len(s) >= Len(p) /\ SubSeq(s, 1, Len(p)) = p

HasSuffix(s, p) == Len(s) >= Len(p) /\ SubSeq(s, Len(s) - Len(p) + 1, Len(s)) = p

\* strings.ReplaceAll(s, old, "") for a non-empty old: every non-overlapping
\* occurrence of old, found left to right, is dropped
RECURSIVE ReplaceAllEmpty(_, _)
ReplaceAllEmpty(s, old) ==
    IF s = <<>> THEN <<>>
    ELSE IF HasPrefix(s, old) THEN ReplaceAllEmpty(SubSeq(s, Len(old) + 1, Len(s)), old)
    ELSE <<Head(s)>> \o ReplaceAllEmpty(Tail(s), old)

(***************************************************************************)
(* types.String and the resource data                                      *)
(***************************************************************************)
\* types.String{Value: v}
Str(v) == [Null |-> FALSE, Unknown |-> FALSE, Value |-> v]

\* a null attribute, as State.Get and Config.Get decode it
NullStr == [Null |-> TRUE, Unknown |-> FALSE, Value |-> <<>>]

\* an attribute not known yet, as Plan.Get decodes it
UnknownStr == [Null |-> FALSE, Unknown |-> TRUE, Value |-> <<>>]

\* porkbunDnsRecordResourceData
Fields == {"Id", "Name", "Type", "Content", "Ttl", "Notes", "Prio", "Domain"}

\* types.String.ToTerraformValue followed by the decoding of the stored value:
\* Null wins over Unknown, and both win over Value
ToTerraformValue(s) ==
    IF s.Null THEN NullStr
    ELSE IF s.Unknown THEN UnknownStr
    ELSE Str(s.Value)

\* resp.State.Set(ctx, &data)
StateSet(d) == [f \in Fields |-> ToTerraformValue(d[f])]

\* no resource in the state
NoState == [Absent |-> TRUE]

\* mutant of RecordOf: TTL and Prio are taken from each other's attribute
RecordOf_SwapTtlPrio(d) ==
    [Name    |-> d.Name.Value,
     Type    |-> d.Type.Value,
     Content |-> d.Content.Value,
     TTL     |-> d.Prio.Value,
     Prio    |-> d.Ttl.Value,
     Notes   |-> d.Notes.Value]

\* porkbun.Record built from the handler's data: the Value of each field
RecordOf(d) ==
    [Name    |-> d.Name.Value,
     Type    |-> d.Type.Value,
     Content |-> d.Content.Value,
     TTL     |-> d.Ttl.Value,
     Prio    |-> d.Prio.Value,
     Notes   |-> d.Notes.Value]

(***************************************************************************)
(* Inputs: what the operator declares and what the record API answers      *)
(***************************************************************************)
\* the declared attributes of a configuration (id is computed, never declared);
\* ttl, notes, prio and content are optional
Desired(name, type, content, ttl, notes, prio, domain) ==
    [Name |-> name, Type |-> type, Content |-> content, Ttl |-> ttl,
     Notes |-> notes, Prio |-> prio, Domain |-> domain]

DesiredSpecs ==
    { Desired(Str(<<"w">>), Str(<<"A">>), Str(<<"c">>), Str(<<"6">>), NullStr, NullStr,
              Str(<<"d">>)),
      Desired(Str(<<>>), Str(<<"T">>), Str(<<"e">>), NullStr, Str(<<"n">>), Str(<<"1">>),
              Str(<<"d">>)),
      Desired(Str(<<"w", ".", "d">>), Str(<<"A">>), Str(<<"c">>), Str(<<"6">>),
              Str(<<"n">>), NullStr, Str(<<"d">>)) }

\* req.Config.Get: the declared attributes, id null
ConfigOf(spec) == [f \in Fields |-> IF f = "Id" THEN NullStr ELSE spec[f]]

\* req.Plan.Get: the declared attributes, the computed id unknown (the schema
\* gives id no plan modifier)
PlanOf(spec) == [f \in Fields |-> IF f = "Id" THEN UnknownStr ELSE spec[f]]

\* porkbun.Record as RetrieveRecords returns it
Remote(id, name, type, content, ttl, notes) ==
    [ID |-> id, Name |-> name, Type |-> type, Content |-> content, TTL |-> ttl,
     Notes |-> notes]

RemoteRecords ==
    { Remote(<<"7">>, <<"w", ".", "d">>, <<"A">>, <<"c">>, <<"6">>, <<>>),
      Remote(<<"7">>, <<"d">>, <<"T">>, <<"e">>, <<"3">>, <<"m">>),
      Remote(<<"1", "2">>, <<"w", ".", "d", ".", "d">>, <<"A">>, <<"c">>, <<"6">>, <<"n">>),
      Remote(<<"9">>, <<"v", ".", "d">>, <<"T">>, <<"e">>, <<"3">>, <<>>) }

\* the longest record list RetrieveRecords answers with
MaxRecords == 2

\* a record of the zone of a domain: the domain itself or a name under it
InZone(name, domain) == name = domain \/ HasSuffix(name, <<".">> \o domain)

\* the record lists of a domain: the API gives every record an identifier of
\* its own and lists the records of the domain asked for
RecordLists(domain) ==
    { l \in UNION { [1..n -> RemoteRecords] : n \in 0..MaxRecords } :
        /\ \A j \in 1..Len(l) : InZone(l[j].Name, domain)
        /\ \A j, k \in 1..Len(l) : j # k => l[j].ID # l[k].ID }

\* the identifiers CreateRecord answers with
CreateIds == {7, 12}

\* the identifiers the operator imports
ImportIds == { <<"7">>, <<"x">> }

\* no failure
Nil == [shape |-> "nil"]

\* porkbun.Status returned as a failure
StatusFailure(status, msg) == [shape |-> "Status", Status |-> status, Message |-> msg]

\* *porkbun.ServerError
ServerError(code, msg) == [shape |-> "ServerError", StatusCode |-> code, Message |-> msg]

\* a failure of any other type
OtherFailure(msg) == [shape |-> "other", Message |-> msg]

\* the failures the client returns: a Status is returned as a failure only when
\* it is not "SUCCESS"
Failures ==
    { StatusFailure("ERROR", "m1"), ServerError(503, "m1"), ServerError(500, "m1"),
      OtherFailure("m2") }

\* what r.provider.client.CreateRecord returns: an identifier, or 0 and a failure
CreateOutcomes ==
    { [result |-> n, err |-> Nil] : n \in CreateIds }
        \cup { [result |-> 0, err |-> e] : e \in Failures }

\* what r.getRecords returns: the records, or an empty list and a failure
getRecords(domain) ==
    { [result |-> l, err |-> Nil] : l \in RecordLists(domain) }
        \cup { [result |-> <<>>, err |-> e] : e \in Failures }

\* what r.provider.client.EditRecord and DeleteRecord return
FailureOnly == { [err |-> Nil] } \cup { [err |-> e] : e \in Failures }

(***************************************************************************)
(* The retry executors                                                     *)
(***************************************************************************)
retryableCodes == {503}

\* mutant of isRetryable: every server fault of the 5xx class is retried
isRetryable_Any5xx(status) == status >= 500

isRetryable(status) == status \in retryableCodes

\* fmt.Errorf("cannot be retried: %s", status.Error())
CannotBeRetried(e) == [shape |-> "cannot be retried", cause |-> e]

\* fmt.Errorf("received error is not retryable: %s", servererr.Error())
NotRetryable(e) == [shape |-> "received error is not retryable", cause |-> e]

\* fmt.Errorf("after %d attempts, last error: %s", attempts, err)
AfterAttempts(attempts, e) == [shape |-> "after attempts", attempts |-> attempts, last |-> e]

\* the handlers that run their call through retry, and through retrySingleReturn
ThroughRetry == {"Create", "Read"}
ThroughRetrySingleReturn == {"Update", "Delete"}

\* the call the handler's closure makes
ApiCall ==
    CASE op = "Create" ->
            [api |-> "CreateRecord", domain |-> data.Domain.Value, record |-> RecordOf(data)]
      [] op = "Read" ->
            [api |-> "RetrieveRecords", domain |-> data.Domain.Value]
      [] op = "Update" ->
            [api |-> "EditRecord", domain |-> data.Domain.Value, id |-> intId,
             record |-> RecordOf(data)]
      [] op = "Delete" ->
            [api |-> "DeleteRecord", domain |-> data.Domain.Value, id |-> intId]

\* what the closure may return
Outcomes ==
    CASE op = "Create" -> CreateOutcomes
      [] op = "Read" -> getRecords(data.Domain.Value)
      [] OTHER -> FailureOnly

\* the executor is entered: its parameters and named results
Enter(o, zero) ==
    /\ op' = o
    /\ prior' = state
    /\ i' = 0
    /\ delay' = sleep
    /\ result' = zero
    /\ err' = Nil
    /\ retErr' = Nil
    /\ calls' = <<>>
    /\ delays' = <<>>
    /\ outs' = <<>>
    /\ cancelled' = FALSE
    /\ pc' = "loop"

\* mutant of retry_loop: the loop runs while i <= attempts
retry_loop_OneMore ==
    /\ pc = "loop"
    /\ op \in ThroughRetry
    /\ IF i <= MaxRetries
       THEN /\ pc' = IF i > 0 THEN "sleep" ELSE "call"
            /\ retErr' = retErr
       ELSE /\ pc' = "ret"
            /\ retErr' = AfterAttempts(MaxRetries, err)
    /\ UNCHANGED <<MaxRetries, sleep, state, prior, op, data, recordId, intId, diags,
                   i, delay, result, err, calls, delays, outs, issued, cancelled>>

\* retry: for i := 0; i < attempts; i++, and the return after the loop
retry_loop ==
    /\ pc = "loop"
    /\ op \in ThroughRetry
    /\ IF i < MaxRetries
       THEN /\ pc' = IF i > 0 THEN "sleep" ELSE "call"
            /\ retErr' = retErr
       ELSE /\ pc' = "ret"
            /\ retErr' = AfterAttempts(MaxRetries, err)
    /\ UNCHANGED <<MaxRetries, sleep, state, prior, op, data, recordId, intId, diags,
                   i, delay, result, err, calls, delays, outs, issued, cancelled>>

\* mutant of retry_sleep: the delay is not doubled
retry_sleep_NoDoubling ==
    /\ pc = "sleep"
    /\ op \in ThroughRetry
    /\ delays' = Append(delays, delay)
    /\ delay' = delay
    /\ pc' = "call"
    /\ UNCHANGED <<MaxRetries, sleep, state, prior, op, data, recordId, intId, diags,
                   i, result, err, retErr, calls, outs, issued, cancelled>>

\* retry: time.Sleep(time.Duration(sleep) * time.Second); sleep *= 2
retry_sleep ==
    /\ pc = "sleep"
    /\ op \in ThroughRetry
    /\ delays' = Append(delays, delay)
    /\ delay' = delay * 2
    /\ pc' = "call"
    /\ UNCHANGED <<MaxRetries, sleep, state, prior, op, data, recordId, intId, diags,
                   i, result, err, retErr, calls, outs, issued, cancelled>>

\* retry: result, err = f() and the classification of err
retry_call(out) ==
    /\ pc = "call"
    /\ op \in ThroughRetry
    /\ calls' = Append(calls, ApiCall)
    /\ outs' = Append(outs, out)
    /\ result' = out.result
    /\ err' = out.err
    /\ IF out.err = Nil
       THEN pc' = "ret" /\ retErr' = Nil /\ i' = i
       ELSE IF out.err.shape = "Status" /\ out.err.Status # "SUCCESS"
       THEN pc' = "ret" /\ retErr' = CannotBeRetried(out.err) /\ i' = i
       ELSE IF out.err.shape = "ServerError" /\ ~isRetryable(out.err.StatusCode)
       THEN pc' = "ret" /\ retErr' = NotRetryable(out.err) /\ i' = i
       ELSE pc' = "loop" /\ retErr' = retErr /\ i' = i + 1
    /\ UNCHANGED <<MaxRetries, sleep, state, prior, op, data, recordId, intId, diags,
                   delay, delays, issued, cancelled>>

retry == retry_loop \/ retry_sleep \/ \E out \in Outcomes : retry_call(out)

\* retrySingleReturn: for i := 0; i < attempts; i++, and the return after the loop
retrySingleReturn_loop ==
    /\ pc = "loop"
    /\ op \in ThroughRetrySingleReturn
    /\ IF i < MaxRetries
       THEN /\ pc' = IF i > 0 THEN "sleep" ELSE "call"
            /\ retErr' = retErr
       ELSE /\ pc' = "ret"
            /\ retErr' = AfterAttempts(MaxRetries, err)
    /\ UNCHANGED <<MaxRetries, sleep, state, prior, op, data, recordId, intId, diags,
                   i, delay, result, err, calls, delays, outs, issued, cancelled>>

\* mutant of retrySingleReturn_sleep: the wait selects on ctx.Done() and a
\* cancelled wait ends the run
retrySingleReturn_sleep_Cancellable ==
    /\ pc = "sleep"
    /\ op \in ThroughRetrySingleReturn
    /\ IF cancelled
       THEN /\ pc' = "ret"
            /\ retErr' = OtherFailure("context canceled")
            /\ UNCHANGED <<delay, delays>>
       ELSE /\ delays' = Append(delays, delay)
            /\ delay' = delay * 2
            /\ pc' = "call"
            /\ retErr' = retErr
    /\ UNCHANGED <<MaxRetries, sleep, state, prior, op, data, recordId, intId, diags,
                   i, result, err, calls, outs, issued, cancelled>>

\* retrySingleReturn: time.Sleep(time.Duration(sleep) * time.Second); sleep *= 2
retrySingleReturn_sleep ==
    /\ pc = "sleep"
    /\ op \in ThroughRetrySingleReturn
    /\ delays' = Append(delays, delay)
    /\ delay' = delay * 2
    /\ pc' = "call"
    /\ UNCHANGED <<MaxRetries, sleep, state, prior, op, data, recordId, intId, diags,
                   i, result, err, retErr, calls, outs, issued, cancelled>>

\* mutant of retrySingleReturn_call: err keeps the failure of the first attempt
retrySingleReturn_call_FirstFailure(out) ==
    /\ pc = "call"
    /\ op \in ThroughRetrySingleReturn
    /\ calls' = Append(calls, ApiCall)
    /\ outs' = Append(outs, out)
    /\ err' = IF err = Nil THEN out.err ELSE err
    /\ IF out.err = Nil
       THEN pc' = "ret" /\ retErr' = Nil /\ i' = i
       ELSE IF out.err.shape = "ServerError" /\ ~isRetryable(out.err.StatusCode)
       THEN pc' = "ret" /\ retErr' = NotRetryable(out.err) /\ i' = i
       ELSE pc' = "loop" /\ retErr' = retErr /\ i' = i + 1
    /\ UNCHANGED <<MaxRetries, sleep, state, prior, op, data, recordId, intId, diags,
                   delay, result, delays, issued, cancelled>>

\* retrySingleReturn: err = f() and the classification of err (a server fault
\* is the only shape it looks for)
retrySingleReturn_call(out) ==
    /\ pc = "call"
    /\ op \in ThroughRetrySingleReturn
    /\ calls' = Append(calls, ApiCall)
    /\ outs' = Append(outs, out)
    /\ err' = out.err
    /\ IF out.err = Nil
       THEN pc' = "ret" /\ retErr' = Nil /\ i' = i
       ELSE IF out.err.shape = "ServerError" /\ ~isRetryable(out.err.StatusCode)
       THEN pc' = "ret" /\ retErr' = NotRetryable(out.err) /\ i' = i
       ELSE pc' = "loop" /\ retErr' = retErr /\ i' = i + 1
    /\ UNCHANGED <<MaxRetries, sleep, state, prior, op, data, recordId, intId, diags,
                   delay, result, delays, issued, cancelled>>

retrySingleReturn ==
    retrySingleReturn_loop \/ retrySingleReturn_sleep
        \/ \E out \in Outcomes : retrySingleReturn_call(out)

(***************************************************************************)
(* The handlers                                                            *)
(***************************************************************************)
\* Create up to the call of retry
CreateBegin(spec) ==
    /\ pc = "idle"
    /\ state = NoState
    /\ data' = ConfigOf(spec)
    /\ diags' = <<>>
    /\ recordId' = <<>>
    /\ intId' = 0
    /\ Enter("Create", 0)
    /\ UNCHANGED <<MaxRetries, sleep, state, issued>>

\* Create from the return of retry: the identifier is written whatever retry returned
CreateEnd ==
    /\ pc = "ret"
    /\ op = "Create"
    /\ diags' = IF retErr # Nil THEN Append(diags, "Error creating DNS Record") ELSE diags
    /\ data' = [data EXCEPT !.Id = Str(Sprint(result))]
    /\ state' = StateSet(data')
    /\ issued' = IF retErr = Nil THEN {Sprint(result)} ELSE issued
    /\ cancelled' = FALSE
    /\ pc' = "idle"
    /\ UNCHANGED <<MaxRetries, sleep, prior, op, recordId, intId, i, delay, result, err,
                   retErr, calls, delays, outs>>

Create == (\E spec \in DesiredSpecs : CreateBegin(spec)) \/ CreateEnd

\* mutant of DeriveName: the last Len(domain)+1 characters are cut off without
\* a look at what they are
DeriveName_CutsBlindly(domain, name) ==
    IF domain = name THEN <<>> ELSE SubSeq(name, 1, Len(name) - Len(domain) - 1)

\* the name Read derives from the remote name
DeriveName(domain, name) ==
    IF domain = name THEN <<>> ELSE ReplaceAllEmpty(name, <<".">> \o domain)

\* the body of Read's loop for a record whose ID is the stored one
Refresh(d, record) ==
    [d EXCEPT !.Content.Value = record.Content,
              !.Name.Value = DeriveName(d.Domain.Value, record.Name),
              !.Notes.Value = record.Notes,
              !.Ttl.Value = record.TTL,
              !.Type.Value = record.Type]

\* mutant of ReadScan: the loop refreshes from every listed record, whatever its ID
RECURSIVE ReadScan_NoIdCheck(_, _)
ReadScan_NoIdCheck(d, records) ==
    IF records = <<>> THEN d
    ELSE ReadScan_NoIdCheck(Refresh(d, Head(records)), Tail(records))

\* for _, record := range getRecordsResult
RECURSIVE ReadScan(_, _)
ReadScan(d, records) ==
    IF records = <<>> THEN d
    ELSE ReadScan(IF Head(records).ID = d.Id.Value THEN Refresh(d, Head(records)) ELSE d,
                  Tail(records))

\* Read up to the call of retry
ReadBegin ==
    /\ pc = "idle"
    /\ state # NoState
    /\ data' = state
    /\ diags' = <<>>
    /\ recordId' = <<>>
    /\ intId' = 0
    /\ Enter("Read", <<>>)
    /\ UNCHANGED <<MaxRetries, sleep, state, issued>>

\* Read from the return of retry
ReadEnd ==
    /\ pc = "ret"
    /\ op = "Read"
    /\ diags' = IF retErr # Nil THEN Append(diags, "Could not retrieve records") ELSE diags
    /\ data' = ReadScan(data, result)
    /\ state' = StateSet(data')
    /\ cancelled' = FALSE
    /\ pc' = "idle"
    /\ UNCHANGED <<MaxRetries, sleep, prior, op, recordId, intId, i, delay, result, err,
                   retErr, calls, delays, outs, issued>>

Read == ReadBegin \/ ReadEnd

\* Update up to the call of retrySingleReturn: a failed conversion adds a
\* diagnostic and leaves intId 0
UpdateBegin(spec) ==
    /\ pc = "idle"
    /\ state # NoState
    /\ data' = PlanOf(spec)
    /\ recordId' = state.Id.Value
    /\ intId' = Atoi(recordId').val
    /\ diags' = IF Atoi(recordId').err THEN <<"Error converting ID to a string">> ELSE <<>>
    /\ Enter("Update", 0)
    /\ UNCHANGED <<MaxRetries, sleep, state, issued>>

\* mutant of UpdateEnd: the stored identifier is not written back over the plan's
UpdateEnd_NoReaffirm ==
    /\ pc = "ret"
    /\ op = "Update"
    /\ diags' = IF retErr # Nil THEN Append(diags, "Error updating the record") ELSE diags
    /\ state' = IF diags' # <<>> THEN state ELSE StateSet(data)
    /\ cancelled' = FALSE
    /\ pc' = "idle"
    /\ UNCHANGED <<MaxRetries, sleep, prior, op, data, recordId, intId, i, delay, result,
                   err, retErr, calls, delays, outs, issued>>

\* Update from the return of retrySingleReturn
UpdateEnd ==
    /\ pc = "ret"
    /\ op = "Update"
    /\ diags' = IF retErr # Nil THEN Append(diags, "Error updating the record") ELSE diags
    /\ state' = IF diags' # <<>> THEN state
                ELSE [StateSet(data) EXCEPT !.Id = Str(recordId)]
    /\ cancelled' = FALSE
    /\ pc' = "idle"
    /\ UNCHANGED <<MaxRetries, sleep, prior, op, data, recordId, intId, i, delay, result,
                   err, retErr, calls, delays, outs, issued>>

Update == (\E spec \in DesiredSpecs : UpdateBegin(spec)) \/ UpdateEnd

\* Delete up to the call of retrySingleReturn
DeleteBegin ==
    /\ pc = "idle"
    /\ state # NoState
    /\ data' = state
    /\ intId' = Atoi(state.Id.Value).val
    /\ diags' = IF Atoi(state.Id.Value).err
                THEN <<"Error converting ID to a string">> ELSE <<>>
    /\ recordId' = <<>>
    /\ Enter("Delete", 0)
    /\ UNCHANGED <<MaxRetries, sleep, state, issued>>

\* mutant of DeleteEnd: the resource leaves the state whatever was reported
DeleteEnd_AlwaysRemoves ==
    /\ pc = "ret"
    /\ op = "Delete"
    /\ diags' = IF retErr # Nil THEN Append(diags, "Error deleting record") ELSE diags
    /\ state' = NoState
    /\ issued' = {}
    /\ cancelled' = FALSE
    /\ pc' = "idle"
    /\ UNCHANGED <<MaxRetries, sleep, prior, op, data, recordId, intId, i, delay, result,
                   err, retErr, calls, delays, outs>>

\* Delete from the return of retrySingleReturn: without a diagnostic the
\* resource leaves the state
DeleteEnd ==
    /\ pc = "ret"
    /\ op = "Delete"
    /\ diags' = IF retErr # Nil THEN Append(diags, "Error deleting record") ELSE diags
    /\ state' = IF diags' # <<>> THEN state ELSE NoState
    /\ issued' = IF diags' # <<>> THEN issued ELSE {}
    /\ cancelled' = FALSE
    /\ pc' = "idle"
    /\ UNCHANGED <<MaxRetries, sleep, prior, op, data, recordId, intId, i, delay, result,
                   err, retErr, calls, delays, outs>>

Delete == DeleteBegin \/ DeleteEnd

\* resource.ImportStatePassthroughID(ctx, path.Root("id"), req, resp)
ImportState ==
    \E id \in ImportIds :
        /\ pc = "idle"
        /\ state = NoState
        /\ state' = [f \in Fields |-> IF f = "Id" THEN Str(id) ELSE NullStr]
        /\ op' = "Import"
        /\ prior' = state
        /\ diags' = <<>>
        /\ calls' = <<>>
        /\ delays' = <<>>
        /\ outs' = <<>>
        /\ retErr' = Nil
        /\ err' = Nil
        /\ issued' = {id}
        /\ cancelled' = FALSE
        /\ UNCHANGED <<MaxRetries, sleep, pc, data, recordId, intId, i, delay, result>>

\* ctx is cancelled while time.Sleep blocks the operation in flight
Cancel ==
    /\ pc = "sleep"
    /\ ~cancelled
    /\ cancelled' = TRUE
    /\ UNCHANGED <<MaxRetries, sleep, state, prior, pc, op, data, recordId, intId, diags,
                   i, delay, result, err, retErr, calls, delays, outs, issued>>

(***************************************************************************)
(* The specification                                                       *)
(***************************************************************************)
Init ==
    /\ MaxRetries \in (0 - 1)..MaxRetriesBound
    /\ sleep = 10
    /\ state = NoState
    /\ prior = NoState
    /\ pc = "idle"
    /\ op = "none"
    /\ data = NoState
    /\ recordId = <<>>
    /\ intId = 0
    /\ diags = <<>>
    /\ i = 0
    /\ delay = 0
    /\ result = 0
    /\ err = Nil
    /\ retErr = Nil
    /\ calls = <<>>
    /\ delays = <<>>
    /\ outs = <<>>
    /\ issued = {}
    /\ cancelled = FALSE

Next ==
    Create \/ Read \/ Update \/ Delete \/ ImportState \/ retry \/ retrySingleReturn \/ Cancel

Spec == Init /\ [][Next]_vars

(***************************************************************************)
(* The name derivation on its own: the inputs are drawn by InitDerive and  *)
(* DeriveStep applies DeriveName to them                                   *)
(***************************************************************************)
NameChars == {"w", ".", "d"}

NamesUpTo(n) == UNION { [1..k -> NameChars] : k \in 0..n }

\* parent domains: one label, and two labels
Domains == { <<"d">>, <<"d", ".", "w">> }

InitDerive ==
    /\ MaxRetries = 1
    /\ sleep = 10
    /\ state = NoState
    /\ prior = NoState
    /\ pc = "derive"
    /\ op = "DeriveName"
    /\ \E n \in NamesUpTo(MaxNameLen), d \in Domains : data = [Name |-> n, Domain |-> d]
    /\ recordId = <<>>
    /\ intId = 0
    /\ diags = <<>>
    /\ i = 0
    /\ delay = 0
    /\ result = <<>>
    /\ err = Nil
    /\ retErr = Nil
    /\ calls = <<>>
    /\ delays = <<>>
    /\ outs = <<>>
    /\ issued = {}
    /\ cancelled = FALSE

DeriveStep ==
    /\ pc = "derive"
    /\ result' = DeriveName(data.Domain, data.Name)
    /\ pc' = "derived"
    /\ UNCHANGED <<MaxRetries, sleep, state, prior, op, data, recordId, intId, diags,
                   i, delay, err, retErr, calls, delays, outs, issued, cancelled>>

\* the derivation applied to its own output; prior keeps the first output
DeriveAgain ==
    /\ pc = "derived"
    /\ prior' = result
    /\ result' = DeriveName(data.Domain, result)
    /\ pc' = "derived twice"
    /\ UNCHANGED <<MaxRetries, sleep, state, op, data, recordId, intId, diags,
                   i, delay, err, retErr, calls, delays, outs, issued, cancelled>>

NextDerive == DeriveStep \/ DeriveAgain

SpecDerive == InitDerive /\ [][NextDerive]_vars

(***************************************************************************)
(* Concurrent invocations of retry.  Terraform runs the handlers of        *)
(* different records concurrently, and every one of them passes the        *)
(* package variable sleep to the executor.  Here pc, i, delay and delays   *)
(* are functions of the invocation; prior[p] keeps the waits the           *)
(* invocations had made when invocation p was entered.  What an attempt    *)
(* returned only decides where the loop goes on.                           *)
(***************************************************************************)
Invocations == {1, 2}

\* retry(attempts, sleep, f) is called: the parameter sleep is a copy
Invoke(p) ==
    /\ pc[p] = "idle"
    /\ pc' = [pc EXCEPT ![p] = "loop"]
    /\ i' = [i EXCEPT ![p] = 0]
    /\ delay' = [delay EXCEPT ![p] = sleep]
    /\ delays' = [delays EXCEPT ![p] = <<>>]
    /\ prior' = [prior EXCEPT ![p] = delays]
    /\ UNCHANGED <<MaxRetries, sleep, state, op, data, recordId, intId, diags, result,
                   err, retErr, calls, outs, issued, cancelled>>

\* for i := 0; i < attempts; i++, and the return after the loop
Loop(p) ==
    /\ pc[p] = "loop"
    /\ pc' = [pc EXCEPT ![p] = IF i[p] < MaxRetries
                               THEN (IF i[p] > 0 THEN "sleep" ELSE "call")
                               ELSE "idle"]
    /\ UNCHANGED <<MaxRetries, sleep, state, prior, op, data, recordId, intId, diags,
                   i, delay, result, err, retErr, calls, delays, outs, issued, cancelled>>

\* mutant of Sleep: the wait and the doubling use the package variable
Sleep_OnPackageVariable(p) ==
    /\ pc[p] = "sleep"
    /\ delays' = [delays EXCEPT ![p] = Append(@, sleep)]
    /\ sleep' = sleep * 2
    /\ pc' = [pc EXCEPT ![p] = "call"]
    /\ UNCHANGED <<MaxRetries, state, prior, op, data, recordId, intId, diags,
                   i, delay, result, err, retErr, calls, outs, issued, cancelled>>

\* time.Sleep(time.Duration(sleep) * time.Second); sleep *= 2, on the parameter
Sleep(p) ==
    /\ pc[p] = "sleep"
    /\ delays' = [delays EXCEPT ![p] = Append(@, delay[p])]
    /\ delay' = [delay EXCEPT ![p] = @ * 2]
    /\ pc' = [pc EXCEPT ![p] = "call"]
    /\ UNCHANGED <<MaxRetries, sleep, state, prior, op, data, recordId, intId, diags,
                   i, result, err, retErr, calls, outs, issued, cancelled>>

\* result, err = f() and the three returns of the loop body
Call(p, out) ==
    /\ pc[p] = "call"
    /\ IF \/ out.err = Nil
          \/ out.err.shape = "Status" /\ out.err.Status # "SUCCESS"
          \/ out.err.shape = "ServerError" /\ ~isRetryable(out.err.StatusCode)
       THEN pc' = [pc EXCEPT ![p] = "idle"] /\ i' = i
       ELSE pc' = [pc EXCEPT ![p] = "loop"] /\ i' = [i EXCEPT ![p] = @ + 1]
    /\ UNCHANGED <<MaxRetries, sleep, state, prior, op, data, recordId, intId, diags,
                   delay, result, err, retErr, calls, delays, outs, issued, cancelled>>

InitShared ==
    /\ MaxRetries \in 0..MaxRetriesBound
    /\ sleep = 10
    /\ state = NoState
    /\ prior = [p \in Invocations |-> [q \in Invocations |-> <<>>]]
    /\ pc = [p \in Invocations |-> "idle"]
    /\ op = "retry"
    /\ data = NoState
    /\ recordId = <<>>
    /\ intId = 0
    /\ diags = <<>>
    /\ i = [p \in Invocations |-> 0]
    /\ delay = [p \in Invocations |-> 0]
    /\ result = 0
    /\ err = Nil
    /\ retErr = Nil
    /\ calls = <<>>
    /\ delays = [p \in Invocations |-> <<>>]
    /\ outs = <<>>
    /\ issued = {}
    /\ cancelled = FALSE

NextShared ==
    \E p \in Invocations :
        \/ Invoke(p)
        \/ Loop(p)
        \/ Sleep(p)
        \/ \E out \in FailureOnly : Call(p, out)

SpecShared == InitShared /\ [][NextShared]_vars

(***************************************************************************)
(* Properties                                                              *)
(***************************************************************************)
\* the executor run of the handler in flight has returned
Returned == pc \in {"ret", "idle"} /\ op \in ThroughRetry \cup ThroughRetrySingleReturn

\* the handler has returned
Done(o) == pc = "idle" /\ op = o

\* a failure with an explicit API status other than success
IsTerminalStatus(e) == e.shape = "Status" /\ e.Status # "SUCCESS"

\* a server fault whose code is outside the retryable set
IsTerminalFault(e) == e.shape = "ServerError" /\ e.StatusCode \notin retryableCodes

\* a retryable failure: a server fault with a retryable code, or any other shape
IsRetryableFailure(e) == e # Nil /\ ~IsTerminalStatus(e) /\ ~IsTerminalFault(e)

\* the records of a list that carry the identifier id
Matching(records, id) == { j \in 1..Len(records) : records[j].ID = id }

\* C1: Update and Delete with a stored identifier that is not a decimal integer
\* report an error and make no call to the record API.
C1_NoCallOnMalformedId ==
    (op \in {"Update", "Delete"} /\ Atoi(prior.Id.Value).err)
        => (calls = <<>> /\ diags # <<>>)

\* C2: a failed Create leaves the identifier of the persisted state unset and
\* surfaces the error as a diagnostic.
C2_FailedCreateLeavesIdUnset ==
    (Done("Create") /\ retErr # Nil)
        => /\ diags # <<>>
           /\ IF state = NoState THEN TRUE ELSE state.Id.Null

\* C3: in both executors a failure with an explicit API status other than
\* success is the last attempt of the run, and no delay follows it.
C3_TerminalStatusEndsRun ==
    \A j \in 1..Len(outs) :
        IsTerminalStatus(outs[j].err) => (Len(outs) = j /\ Len(calls) = j /\ Len(delays) = j - 1)

\* C4: k retryable failures followed by a success give the result of attempt
\* k+1 and no error, after k+1 attempts and k delays, the i-th delay being
\* sleep * 2^(i-1); no delay precedes attempt 1.
C4_SuccessAfterRetries ==
    /\ calls = <<>> => delays = <<>>
    /\ (/\ Returned
        /\ outs # <<>>
        /\ outs[Len(outs)].err = Nil
        /\ \A j \in 1..(Len(outs) - 1) : IsRetryableFailure(outs[j].err))
        => LET k == Len(outs) - 1
           IN  /\ k < MaxRetries
               /\ retErr = Nil
               /\ op \in ThroughRetry => result = outs[k + 1].result
               /\ Len(calls) = k + 1
               /\ delays = [j \in 1..k |-> sleep * 2 ^ (j - 1)]

C4_Witness ==
    /\ Returned
    /\ Len(outs) = 3
    /\ outs[3].err = Nil
    /\ \A j \in 1..2 : IsRetryableFailure(outs[j].err)
    /\ delays = <<10, 20>>

\* C5: when MaxRetries >= 1 and every attempt fails with a retryable failure,
\* the executor makes MaxRetries attempts and MaxRetries - 1 delays and returns
\* an error reporting MaxRetries and the failure of the last attempt.
C5_Exhaustion ==
    (/\ Returned
     /\ MaxRetries >= 1
     /\ \A j \in 1..Len(outs) : IsRetryableFailure(outs[j].err))
        => /\ Len(outs) = MaxRetries
           /\ Len(calls) = MaxRetries
           /\ Len(delays) = MaxRetries - 1
           /\ retErr = AfterAttempts(MaxRetries, outs[MaxRetries].err)

C5_Witness ==
    /\ Returned
    /\ MaxRetries = 3
    /\ Len(outs) = 3
    /\ \A j \in 1..3 : IsRetryableFailure(outs[j].err)
    /\ outs[1].err # outs[3].err
    /\ retErr.shape = "after attempts"

\* C6: in both executors a server fault is followed by another attempt if and
\* only if its code is retryable and attempts remain; a fault with any other
\* code ends the run there with a 'not retryable' error and no later delay.
C6_ServerFault ==
    \A j \in 1..Len(outs) :
        outs[j].err.shape = "ServerError" =>
            /\ IsTerminalFault(outs[j].err)
                => /\ Len(outs) = j
                   /\ Len(delays) = j - 1
                   /\ pc \in {"ret", "idle"}
                   /\ retErr = NotRetryable(outs[j].err)
            /\ j < Len(outs) => (isRetryable(outs[j].err.StatusCode) /\ j < MaxRetries)
            /\ (j = Len(outs) /\ isRetryable(outs[j].err.StatusCode) /\ j < MaxRetries)
                => pc \in {"loop", "sleep", "call"}

C6_Witness ==
    /\ Len(outs) = 2
    /\ outs[1].err = ServerError(503, "m1")
    /\ outs[2].err = ServerError(500, "m1")
    /\ retErr = NotRetryable(ServerError(500, "m1"))
    /\ Len(delays) = 1

\* the persisted state holds an identifier
HoldsId(s) == IF s = NoState THEN FALSE ELSE ~s.Id.Null /\ ~s.Id.Unknown

\* C7: once the persisted state holds an identifier, every later persisted
\* state of the record holds the same identifier, until Delete removes the record.
C7_IdentifierNeverChanges ==
    [][(HoldsId(state) /\ state' # NoState) => state'.Id = state.Id]_vars

C7_Witness ==
    /\ Done("Update")
    /\ diags = <<>>
    /\ HoldsId(prior)
    /\ state # prior
    /\ state.Id = prior.Id

\* C8: when Read retrieves the list and no listed record carries the stored
\* identifier, the persisted state is the state before Read and no error is reported.
C8_ReadNotFound ==
    (Done("Read") /\ retErr = Nil /\ Matching(result, prior.Id.Value) = {})
        => (state = prior /\ diags = <<>>)

C8_Witness ==
    /\ Done("Read")
    /\ retErr = Nil
    /\ Len(result) = 2
    /\ Matching(result, prior.Id.Value) = {}
    /\ ~prior.Name.Null
    /\ state = prior

\* C9: when Read finds a listed record with the stored identifier, content,
\* notes, TTL and type of the state are the remote record's, the name is the
\* derived name, and identifier, domain and priority are those before Read.
C9_ReadFound ==
    (Done("Read") /\ retErr = Nil)
        => \A j \in Matching(result, prior.Id.Value) :
             /\ state.Content = Str(result[j].Content)
             /\ state.Notes = Str(result[j].Notes)
             /\ state.Ttl = Str(result[j].TTL)
             /\ state.Type = Str(result[j].Type)
             /\ state.Name = Str(DeriveName(prior.Domain.Value, result[j].Name))
             /\ state.Id = prior.Id
             /\ state.Domain = prior.Domain
             /\ state.Prio = prior.Prio

\* the derivation rule as stated: the empty string for the domain itself, the
\* name without its one trailing '.'+d when it ends with it, the name otherwise
StatedName(n, d) ==
    IF n = d THEN <<>>
    ELSE IF HasSuffix(n, <<".">> \o d) THEN SubSeq(n, 1, Len(n) - Len(d) - 1)
    ELSE n

\* C10: the name Read derives is the empty string when n = d, n without the
\* single trailing '.'+d when n ends with it, and n otherwise; an occurrence
\* of '.'+d that is not the suffix is never removed.
C10_DerivedName ==
    pc = "derived" => result = StatedName(data.Name, data.Domain)

\* the state Import leaves: the identifier, and every other attribute null
ImportedOnly(s) ==
    IF s = NoState THEN FALSE
    ELSE ~s.Id.Null /\ \A f \in Fields \ {"Id"} : s[f].Null

\* C11: after Import of an identifier that exists remotely, the next Read
\* populates name, type, content, TTL and notes from the remote record with
\* that identifier.
C11_ImportThenRead ==
    (/\ Done("Read")
     /\ retErr = Nil
     /\ ImportedOnly(prior)
     /\ \E r \in RemoteRecords : r.ID = prior.Id.Value)
        => \E r \in RemoteRecords :
             /\ r.ID = prior.Id.Value
             /\ ~state.Name.Null
             /\ state.Type = Str(r.Type)
             /\ state.Content = Str(r.Content)
             /\ state.Ttl = Str(r.TTL)
             /\ state.Notes = Str(r.Notes)

\* the fully-qualified name the remote stores for a fragment f of a domain d
FullName(f, d) == IF f = <<>> THEN d ELSE f \o <<".">> \o d

\* the persisted state a successful Create of spec leaves, n being the
\* identifier CreateRecord answered with
CreatedState(spec, n) == [ConfigOf(spec) EXCEPT !.Id = Str(Sprint(n))]

\* C12: a successful Create leaves a non-empty numeric identifier, and a Read
\* that finds the created record (the identifier, the name f.d or d, the type
\* and the content as created) yields the name f, the type t and the content c.
C12_CreateThenRead ==
    /\ (Done("Create") /\ retErr = Nil)
        => (~state.Id.Null /\ state.Id.Value # <<>> /\ ~Atoi(state.Id.Value).err)
    /\ (/\ Done("Read")
        /\ retErr = Nil
        /\ \E spec \in DesiredSpecs, n \in CreateIds : prior = CreatedState(spec, n))
        => \A j \in 1..Len(result) :
             (/\ result[j].ID = prior.Id.Value
              /\ result[j].Name = FullName(prior.Name.Value, prior.Domain.Value)
              /\ result[j].Type = prior.Type.Value
              /\ result[j].Content = prior.Content.Value)
                => (/\ state.Name = prior.Name
                    /\ state.Type = prior.Type
                    /\ state.Content = prior.Content)

\* C13: when Update succeeds, every EditRecord call carried the numeric form
\* of the stored identifier and the payload of the new desired spec, and the
\* persisted state holds the new desired spec and the identifier stored before.
C13_UpdateSuccess ==
    (Done("Update") /\ diags = <<>>)
        => \E spec \in DesiredSpecs :
             /\ calls # <<>>
             /\ \A j \in 1..Len(calls) :
                  /\ calls[j].api = "EditRecord"
                  /\ calls[j].domain = spec.Domain.Value
                  /\ ~Atoi(prior.Id.Value).err
                  /\ calls[j].id = Atoi(prior.Id.Value).val
                  /\ calls[j].record =
                       [Name |-> spec.Name.Value, Type |-> spec.Type.Value,
                        Content |-> spec.Content.Value, TTL |-> spec.Ttl.Value,
                        Prio |-> spec.Prio.Value, Notes |-> spec.Notes.Value]
             /\ \A f \in Fields \ {"Id"} : state[f] = spec[f]
             /\ state.Id = prior.Id

C13_Witness ==
    /\ Done("Update")
    /\ diags = <<>>
    /\ Len(calls) = 2
    /\ calls[2].id = 12
    /\ state.Name # prior.Name
    /\ state.Id = Str(<<"1", "2">>)

\* s holds an occurrence of p
Contains(s, p) == \E k \in 0..(Len(s) - Len(p)) : SubSeq(s, k + 1, k + Len(p)) = p

\* a bare fragment of a domain d: not d itself, and without any '.'+d
Bare(x, d) == x # d /\ ~Contains(x, <<".">> \o d)

\* C15 as stated: the derivation is idempotent for every remote name and domain.
C15_Idempotent ==
    pc = "derived twice" => result = prior

\* C15 as amended: the derivation applied to its own output gives that output
\* whenever the output is a bare fragment (it is not the domain and holds no
\* '.'+domain).
C15_IdempotentWhenBare ==
    (pc = "derived twice" /\ Bare(prior, data.Domain)) => result = prior

C15_Witness ==
    /\ pc = "derived twice"
    /\ data.Name = <<"w", "w", ".", "d">>
    /\ data.Domain = <<"d">>
    /\ prior = <<"w", "w">>
    /\ result = <<"w", "w">>

\* outside the amended claim the second application always changes the output
C15_NotBareChanges ==
    (pc = "derived twice" /\ ~Bare(prior, data.Domain)) => result # prior

\* C17: when Read, Update or Delete ends with an error, the persisted state is
\* the state before the operation.
C17_FailedOperationKeepsState ==
    (pc = "idle" /\ op \in {"Read", "Update", "Delete"} /\ diags # <<>>)
        => state = prior

C17_Witness ==
    /\ Done("Update")
    /\ retErr.shape = "after attempts"
    /\ diags = <<"Error updating the record">>
    /\ \E f \in Fields \ {"Id"} : ToTerraformValue(data[f]) # prior[f]
    /\ state = prior

\* the attempts one executor invocation may make
MaxCalls == IF MaxRetries > 0 THEN MaxRetries ELSE 0

\* C18: one executor invocation calls the operation at most MaxRetries times;
\* with MaxRetries <= 0 it never calls it and returns the exhaustion error, so
\* Create, Read, Update and Delete report an error without any API call.
C18_AtMostMaxRetriesCalls ==
    /\ Len(calls) <= MaxCalls
    /\ Len(outs) = Len(calls)
    /\ (pc \in {"loop", "sleep", "call"}) => (i = Len(calls) /\ i <= MaxCalls)
    /\ (Returned /\ MaxRetries <= 0)
        => (calls = <<>> /\ retErr = AfterAttempts(MaxRetries, Nil))
    /\ (pc = "idle" /\ op \in ThroughRetry \cup ThroughRetrySingleReturn /\ MaxRetries <= 0)
        => (calls = <<>> /\ diags # <<>>)

C18_Witness ==
    /\ MaxRetries = 0
    /\ Done("Delete")
    /\ calls = <<>>
    /\ retErr = AfterAttempts(0, Nil)
    /\ diags = <<"Error deleting record">>
    /\ state = prior

\* the calls that name a record by its identifier
ById(c) == c.api \in {"EditRecord", "DeleteRecord"}

\* n is the number an issued identifier stands for
Issued(n) == \E s \in issued : ~Atoi(s).err /\ Atoi(s).val = n

\* C16: every EditRecord and DeleteRecord call carries an identifier that a
\* successful CreateRecord returned or an import supplied, never the
\* placeholder 0 of a failed Create or a failed conversion.
C16_CallsCarryIssuedId ==
    \A k \in 1..Len(calls) : ById(calls[k]) => (Issued(calls[k].id) /\ calls[k].id # 0)

\* the end of a run of the executor
Ended ==
    \/ retErr = Nil /\ outs # <<>> /\ outs[Len(outs)].err = Nil
    \/ retErr.shape \in {"cannot be retried", "received error is not retryable"}
    \/ retErr.shape = "after attempts" /\ Len(calls) = MaxCalls

\* C19: a cancellation raised during a backoff wait ends neither the wait nor
\* the run: the only step of the waiting operation is the end of the full wait,
\* followed by the next attempt, and the run ends only by success, by a
\* terminal failure or by exhaustion.
C19_CancelDoesNotEndWait ==
    [][ /\ (cancelled /\ pc = "sleep")
            => /\ pc' = "call"
               /\ delays' = Append(delays, delay)
               /\ Len(delays') = i
               /\ calls' = calls
               /\ cancelled'
        /\ (cancelled /\ pc = "call")
            => /\ Len(calls') = Len(calls) + 1
               /\ pc' \in {"loop", "ret"}
        /\ (cancelled' /\ pc' = "ret") => Ended' ]_vars

C19_Witness ==
    /\ cancelled
    /\ pc = "ret"
    /\ op = "Update"
    /\ retErr = Nil
    /\ delays = <<10>>
    /\ Len(calls) = 2
    /\ IsRetryableFailure(outs[1].err)
    /\ outs[2].err = Nil
    /\ diags = <<>>

\* 2^n
RECURSIVE Pow2(_)
Pow2(n) == IF n = 0 THEN 1 ELSE 2 * Pow2(n - 1)

\* C14: the backoff delay is local to an invocation of the executor: whatever
\* the invocations did and however they interleave, the package variable
\* sleep keeps its initial value, every invocation's first wait is that value
\* and its k-th wait is that value doubled k - 1 times.
C14_DelayIsLocal ==
    /\ sleep = 10
    /\ \A p \in Invocations :
        /\ \A k \in 1..Len(delays[p]) : delays[p][k] = 10 * Pow2(k - 1)
        /\ pc[p] # "idle" => delay[p] = 10 * Pow2(Len(delays[p]))

\* invocation 1 had doubled its delay twice when invocation 2 was entered, and
\* invocation 2 has made its first wait while invocation 1 is waiting again
C14_Witness ==
    /\ prior[2][1] = <<10, 20>>
    /\ delays[2] = <<10>>
    /\ delays[1] = <<10>>
    /\ pc[1] = "call"
    /\ pc[2] = "call"
    /\ sleep = 10

====
